---- MODULE Spec2Model ----
(***************************************************************************)
(* A model of sakajunquality/flow: the manifest filter, the release        *)
(* naming, the per-manifest commit / pull-request loop of Flow.process and *)
(* the tree building of gitbot.Release.                                    *)
(*                                                                         *)
(* The repository holds two revisions of package flow's process file:      *)
(* src/flow/process.go (direct Commit call, rollout/ branches, global      *)
(* default branch) and src/unnamed/part_000 (retry.Do around Commit,       *)
(* release/ branches, AddChanges).  Both are modelled; the variable rev    *)
(* says which one an event runs.  The gitbot code is the one found in      *)
(* src/go.mod (lines 18-146).                                              *)
(*                                                                         *)
(* Go strings are TLA+ strings; a file's content is a sequence of lines.   *)
(***************************************************************************)
EXTENDS Integers, Sequences, FiniteSets, TLC

VARIABLES
    rev,        \* which revision of Flow.process handles the event
    cfg,        \* the global configuration (flow.go: var cfg *Config)
    image,      \* the event's image
    version,    \* the event's version
    app,        \* the Application found for the image (None before, or when none)
    pc,         \* position of processImage / process
    idx,        \* index in app.Manifests of the manifest the loop is at
    release,    \* the gitbot.Release of the current manifest (None between manifests)
    tries,      \* release.Commit attempts made for the current manifest
    prs,        \* the PullRequests sequence being built
    skipped,    \* indices of the manifests shouldProcess rejected
    calls,      \* history of the gitbot calls made: [op, m, ok]
    refs,       \* the manifest repository: branch name -> sequence of commits
    files,      \* content of the files on the base branches: path -> lines
    arg,        \* argument record of a function applied on its own
    ret         \* its result (None before the call)

vars == <<rev, cfg, image, version, app, pc, idx, release, tries, prs,
          skipped, calls, refs, files, arg, ret>>

\* no error, no text
Null == "null"

\* no record: no application found yet, no release at hand, no result yet
None == [none |-> TRUE]

RevNew == "flow/process.go"
RevOld == "unnamed/part_000"

---------------------------------------------------------------------------
(* Strings *)

\* strings.HasPrefix(s, prefix)
HasPrefix(s, prefix) ==
    /\ Len(prefix) <= Len(s)
    /\ SubSeq(s, 1, Len(prefix)) = prefix

\* strings.Contains(s, substr)
Contains(s, substr) ==
    \E i \in 1..(Len(s) + 1) :
        /\ i + Len(substr) - 1 <= Len(s)
        /\ SubSeq(s, i, i + Len(substr) - 1) = substr

---------------------------------------------------------------------------
(* The manifest filter *)

\* a loop that looks at the entry it starts with only
anyHasPrefix_firstOnly(prefixes, v, i) ==
    i <= Len(prefixes) /\ HasPrefix(v, prefixes[i])

\* the loop "for _, prefix := range prefixes { if strings.HasPrefix(version, prefix) {...} }"
\* run from entry i: TRUE when some entry from i on is a prefix of v
RECURSIVE anyHasPrefix(_, _, _)
anyHasPrefix(prefixes, v, i) ==
    IF i > Len(prefixes) THEN FALSE
    ELSE IF HasPrefix(v, prefixes[i]) THEN TRUE
    ELSE anyHasPrefix(prefixes, v, i + 1)

\* shouldProcess without the check of the latest tag
shouldProcess_noLatest(m, v) ==
    IF v = "" THEN FALSE
    ELSE IF anyHasPrefix(m.Filters.ExcludePrefixes, v, 1) THEN FALSE
    ELSE IF Len(m.Filters.IncludePrefixes) = 0 THEN TRUE
    ELSE anyHasPrefix(m.Filters.IncludePrefixes, v, 1)

\* shouldProcess accepting a version that no include prefix matches
shouldProcess_defaultAllow(m, v) ==
    IF v = "" THEN FALSE
    ELSE IF v = "latest" THEN FALSE
    ELSE IF anyHasPrefix(m.Filters.ExcludePrefixes, v, 1) THEN FALSE
    ELSE TRUE

\* shouldProcess of both revisions of the process file
shouldProcess(m, v) ==
    IF v = "" THEN FALSE
    ELSE IF v = "latest" THEN FALSE
    ELSE IF anyHasPrefix(m.Filters.ExcludePrefixes, v, 1) THEN FALSE
    ELSE IF Len(m.Filters.IncludePrefixes) = 0 THEN TRUE
    ELSE anyHasPrefix(m.Filters.IncludePrefixes, v, 1)

---------------------------------------------------------------------------
(* Release naming *)

\* getBranchName of src/flow/process.go
\* what becomes of the branch name when it reads the global configuration
getBranchName_readsConfig(a, m, v) ==
    (IF cfg.DefaultBranch = "" THEN "rollout" ELSE cfg.DefaultBranch) \o "/" \o m.Env
        \o (IF ~m.HideSourceName THEN "-" \o a.SourceName ELSE "")
        \o "-" \o v

getBranchName(a, m, v) ==
    LET repo == IF m.ShowSourceOwner
                THEN a.SourceOwner \o "-" \o a.SourceName
                ELSE a.SourceName
    IN  "rollout/" \o m.Env
            \o (IF ~m.HideSourceName THEN "-" \o repo ELSE "")
            \o "-" \o v

\* getBranchName of src/unnamed/part_000
getBranchName_part000(a, m, v) ==
    LET repo == IF m.ShowSourceOwner
                THEN a.SourceOwner \o "-" \o a.SourceName
                ELSE a.SourceName
    IN  "release/" \o m.Env
            \o (IF m.ShowSourceName THEN "-" \o repo ELSE "")
            \o "-" \o v

\* what becomes of the message when the owner is written whatever the name's flag
getCommitMessage_ownerAlways(a, m, v) ==
    "Rollout" \o " " \o m.Env
        \o (IF m.ShowSourceOwner THEN " " \o a.SourceOwner \o "/" \o a.SourceName
            ELSE IF ~m.HideSourceName THEN " " \o a.SourceName ELSE "")
        \o " " \o v

\* getCommitMessage of src/flow/process.go
getCommitMessage(a, m, v) ==
    LET repo == IF m.ShowSourceOwner
                THEN a.SourceOwner \o "/" \o a.SourceName
                ELSE a.SourceName
    IN  "Rollout" \o " " \o m.Env
            \o (IF ~m.HideSourceName THEN " " \o repo ELSE "")
            \o " " \o v

\* getCommitMessage of src/unnamed/part_000
getCommitMessage_part000(a, m, v) ==
    LET repo == IF m.ShowSourceOwner
                THEN a.SourceOwner \o "/" \o a.SourceName
                ELSE a.SourceName
    IN  "Release" \o " " \o m.Env
            \o (IF m.ShowSourceName THEN " " \o repo ELSE "")
            \o " " \o v

---------------------------------------------------------------------------
(* The Release of one manifest *)

\* gitbot.Release (the fields the model follows); Repo is embedded in Go
Release(baseBranch, commitBranch, message, labels) ==
    [BaseBranch   |-> baseBranch,
     CommitBranch |-> commitBranch,
     Message      |-> message,
     Labels       |-> labels,
     Changes      |-> <<>>]

\* the base branch newRelease of src/flow/process.go resolves
baseBranchOf(a, m) ==
    LET b1 == a.ManifestBaseBranch
        b2 == IF b1 = "" THEN cfg.DefaultBranch ELSE b1
        b3 == IF b2 = "" THEN "master" ELSE b2
    IN  IF m.BaseBranch /= "" THEN m.BaseBranch ELSE b3

\* the base branch newRelease of src/unnamed/part_000 resolves
baseBranchOf_part000(a, m) ==
    IF m.BaseBranch /= "" THEN m.BaseBranch ELSE a.ManifestBaseBranch

\* newRelease without the CommitWithoutPR case: always the derived branch
newRelease_alwaysBranch(a, m, v) ==
    Release(baseBranchOf(a, m), getBranchName(a, m, v), getCommitMessage(a, m, v),
            <<a.SourceName, m.Env>> \o m.Labels)

\* newRelease of src/flow/process.go
newRelease(a, m, v) ==
    LET branchName   == getBranchName(a, m, v)
        message      == getCommitMessage(a, m, v)
        baseBranch   == baseBranchOf(a, m)
        commitBranch == IF m.CommitWithoutPR THEN baseBranch ELSE branchName
    IN  Release(baseBranch, commitBranch, message,
                <<a.SourceName, m.Env>> \o m.Labels)

\* newRelease of src/unnamed/part_000
newRelease_part000(a, m, v) ==
    LET branchName   == getBranchName_part000(a, m, v)
        message      == getCommitMessage_part000(a, m, v)
        baseBranch   == baseBranchOf_part000(a, m)
        commitBranch == IF m.CommitWithoutPR THEN baseBranch ELSE branchName
    IN  Release(baseBranch, commitBranch, message,
                <<a.SourceName, m.Env>> \o m.Labels)

\* one entry of Release.Changes
Change(filePath, regexText, changedText) ==
    [filePath |-> filePath, regexText |-> regexText, changedText |-> changedText]

\* Release.AddChanges: append one change to r.Changes
AddChanges(r, filePath, regexText, changedText) ==
    [r EXCEPT !.Changes = Append(@, Change(filePath, regexText, changedText))]

versionRewriteRegex == "(?!.*(do-not-rewrite|no-rewrite).*)(version: +(?<version>.*))"

\* the changes src/unnamed/part_000 registers for one file, in order
fileChanges_part000(r, a, filePath, v) ==
    LET r1 == AddChanges(r, filePath, a.Image \o ":.*", a.Image \o ":" \o v)
        r2 == IF a.RewriteVersion
              THEN AddChanges(r1, filePath, "version: .*", "version: " \o v)
              ELSE r1
    IN  IF a.RewriteNewTag /\ Contains(filePath, "kustomization.yaml")
        THEN AddChanges(r2, filePath, "newTag: .*", "newTag: " \o v)
        ELSE r2

\* "for _, key := range app.AdditionalRewriteKeys { release.MakeChangeFunc(...) }" from key i
RECURSIVE keyChanges(_, _, _, _, _)
keyChanges(r, keys, filePath, v, i) ==
    IF i > Len(keys) THEN r
    ELSE keyChanges(AddChanges(r, filePath, keys[i] \o ": +(?<version>.*)",
                               keys[i] \o ": " \o v),
                    keys, filePath, v, i + 1)

\* "for _, prefix := range app.AdditionalRewritePrefix { release.MakeChangeFunc(...) }"
RECURSIVE prefixChanges(_, _, _, _, _)
prefixChanges(r, prefixes, filePath, v, i) ==
    IF i > Len(prefixes) THEN r
    ELSE prefixChanges(AddChanges(r, filePath, prefixes[i] \o "(?<version>.*)",
                                  prefixes[i] \o v),
                       prefixes, filePath, v, i + 1)

\* what becomes of the tree when the prefix rules are registered first
fileChanges_prefixFirst(r, a, filePath, v) ==
    LET r0 == prefixChanges(r, a.AdditionalRewritePrefix, filePath, v, 1)
        r1 == AddChanges(r0, filePath, a.Image \o ":(?<version>.*)", a.Image \o ":" \o v)
        r2 == AddChanges(r1, filePath, versionRewriteRegex, "version: " \o v)
    IN  keyChanges(r2, a.AdditionalRewriteKeys, filePath, v, 1)

\* the changes src/flow/process.go registers for one file, in order
fileChanges(r, a, filePath, v) ==
    LET r1 == AddChanges(r, filePath, a.Image \o ":(?<version>.*)", a.Image \o ":" \o v)
        r2 == AddChanges(r1, filePath, versionRewriteRegex, "version: " \o v)
        r3 == keyChanges(r2, a.AdditionalRewriteKeys, filePath, v, 1)
    IN  prefixChanges(r3, a.AdditionalRewritePrefix, filePath, v, 1)

\* "for _, filePath := range manifest.Files { ... }" of process, from file i
RECURSIVE registerChanges(_, _, _, _, _, _)
registerChanges(rv, r, a, m, v, i) ==
    IF i > Len(m.Files) THEN r
    ELSE registerChanges(rv,
                         IF rv = RevNew THEN fileChanges(r, a, m.Files[i], v)
                                        ELSE fileChanges_part000(r, a, m.Files[i], v),
                         a, m, v, i + 1)

---------------------------------------------------------------------------
(* regexp2, as far as the rewrite patterns of this program use it *)

HasSuffix(s, suffix) ==
    /\ Len(suffix) <= Len(s)
    /\ SubSeq(s, Len(s) - Len(suffix) + 1, Len(s)) = suffix

TrimSuffix(s, suffix) == SubSeq(s, 1, Len(s) - Len(suffix))

\* The shapes the program builds: a literal, then optionally " +", then ".*"
\* (written .* or (?<version>.*)), optionally guarded by the negative lookahead
\* of versionRewriteRegex.
Pattern(regex) ==
    IF regex = versionRewriteRegex
    THEN [lit |-> "version:", plus |-> TRUE, guard |-> TRUE]
    ELSE IF HasSuffix(regex, ": +(?<version>.*)")
    THEN [lit |-> TrimSuffix(regex, " +(?<version>.*)"), plus |-> TRUE, guard |-> FALSE]
    ELSE IF HasSuffix(regex, "(?<version>.*)")
    THEN [lit |-> TrimSuffix(regex, "(?<version>.*)"), plus |-> FALSE, guard |-> FALSE]
    ELSE [lit |-> TrimSuffix(regex, ".*"), plus |-> FALSE, guard |-> FALSE]

\* how many times the character c occurs in s
Count(s, c) == Cardinality({i \in 1..Len(s) : SubSeq(s, i, i) = c})

\* regexp2.Compile succeeds: the text put in front of the (well-formed) tail
\* closes as many groups as it opens
Compiles(regex) ==
    LET lit == Pattern(regex).lit IN Count(lit, "(") = Count(lit, ")")

\* the pattern matches line at position i (and then to the end of the line)
MatchesAt(pat, line, i) ==
    /\ i + Len(pat.lit) - 1 <= Len(line)
    /\ SubSeq(line, i, i + Len(pat.lit) - 1) = pat.lit
    /\ pat.plus => /\ i + Len(pat.lit) <= Len(line)
                   /\ SubSeq(line, i + Len(pat.lit), i + Len(pat.lit)) = " "
    /\ pat.guard => LET rest == SubSeq(line, i, Len(line))
                    IN  ~Contains(rest, "do-not-rewrite") /\ ~Contains(rest, "no-rewrite")

\* the positions of line the pattern matches at
MatchPositions(pat, line) == {i \in 1..Len(line) : MatchesAt(pat, line, i)}

\* Regexp.Replace on one line: the leftmost match runs to the end of the line
ReplaceLine(pat, line, changed) ==
    LET at == MatchPositions(pat, line) IN
    IF at = {} THEN line
    ELSE LET i == CHOOSE k \in at : \A j \in at : k <= j
         IN  SubSeq(line, 1, i - 1) \o changed

\* Regexp.Replace(original, changed, 0, -1): every match, "." stops at a line end
Replace(regex, original, changed) ==
    LET pat == Pattern(regex) IN
    [k \in 1..Len(original) |-> ReplaceLine(pat, original[k], changed)]

---------------------------------------------------------------------------
(* gitbot: the code of src/go.mod, lines 18-146 *)

\* what a call that can panic gives back
Panic == [panic |-> TRUE]
Value(x) == [panic |-> FALSE, value |-> x]

\* getChangedText; replaceOk is whether Regexp.Replace returned no error.
\* regexp2.MustCompile panics on a pattern that does not compile.
getChangedText(original, regex, changed, replaceOk) ==
    IF ~Compiles(regex) THEN Panic
    ELSE IF ~replaceOk THEN Value(original)
    ELSE Value(Replace(regex, original, changed))

\* getOriginalContent; apiOk is whether Repositories.GetContents and GetContent
\* returned no error (they do when the base branch has no such file)
getOriginalContent(fs, filePath, apiOk) ==
    IF apiOk /\ filePath \in DOMAIN fs
    THEN [err |-> FALSE, content |-> fs[filePath]]
    ELSE [err |-> TRUE, content |-> <<>>]

\* m with key k set to x
MapSet(m, k, x) == [q \in DOMAIN m \cup {k} |-> IF q = k THEN x ELSE m[q]]

\* the loop "for _, c := range r.Changes" of getTree from change i, entryMap so far;
\* fetchOk[i] and replaceOk[i] are the outcomes of the calls made for change i
RECURSIVE treeEntries(_, _, _, _, _, _)
treeEntries(r, fs, fetchOk, replaceOk, i, entryMap) ==
    IF i > Len(r.Changes) THEN Value(entryMap)
    ELSE LET c == r.Changes[i] IN
         IF c.filePath \in DOMAIN entryMap
         THEN LET t == getChangedText(entryMap[c.filePath], c.regexText,
                                      c.changedText, replaceOk[i])
              IN  IF t.panic THEN Panic
                  ELSE treeEntries(r, fs, fetchOk, replaceOk, i + 1,
                                   MapSet(entryMap, c.filePath, t.value))
         ELSE LET o == getOriginalContent(fs, c.filePath, fetchOk[i]) IN
              IF o.err
              THEN treeEntries(r, fs, fetchOk, replaceOk, i + 1, entryMap)
              ELSE LET t == getChangedText(o.content, c.regexText,
                                           c.changedText, replaceOk[i])
                   IN  IF t.panic THEN Panic
                       ELSE treeEntries(r, fs, fetchOk, replaceOk, i + 1,
                                        MapSet(entryMap, c.filePath, t.value))

EmptyMap == [q \in {} |-> <<>>]

\* the end of getTree: the entries made of entryMap and handed to Git.CreateTree;
\* e is what the loop over r.Changes gave
createTree(e, createOk) ==
    IF e.panic THEN [panic |-> TRUE, err |-> FALSE, entries |-> EmptyMap]
    ELSE [panic |-> FALSE, err |-> ~createOk, entries |-> e.value]

\* getTree: the tree's entries (path -> content), an error of Git.CreateTree, or a panic
getTree(r, fs, fetchOk, replaceOk, createOk) ==
    createTree(treeEntries(r, fs, fetchOk, replaceOk, 1, EmptyMap), createOk)

\* outcomes of the GitHub calls of getRef: all succeed, or the named one fails
GetRefOutcomes == {"ok", "readErr", "baseErr", "createErr"}

\* getRef: the commit branch's ref, created at the base branch's commit when
\* reading it fails; rs is the repository's refs
getRef(rs, r, o) ==
    IF r.CommitBranch \in DOMAIN rs /\ o /= "readErr"
    THEN [err |-> FALSE, refs |-> rs]
    ELSE IF r.BaseBranch \notin DOMAIN rs \/ o = "baseErr"
    THEN [err |-> TRUE, refs |-> rs]
    ELSE IF r.CommitBranch \in DOMAIN rs \/ o = "createErr"
    THEN [err |-> TRUE, refs |-> rs]
    ELSE [err |-> FALSE, refs |-> MapSet(rs, r.CommitBranch, rs[r.BaseBranch])]

\* outcomes of the GitHub calls of pushCommit
PushCommitOutcomes == {"ok", "getCommitErr", "createCommitErr", "updateRefErr"}

\* pushCommit: a commit with r.Message on top of the ref's commit, the ref moved to it
pushCommit(rs, r, o) ==
    IF o /= "ok"
    THEN [err |-> TRUE, refs |-> rs]
    ELSE [err |-> FALSE,
          refs |-> [rs EXCEPT ![r.CommitBranch] = Append(@, r.Message)]]

\* outcomes of the GitHub calls of createPR
CreatePROutcomes == {"ok", "createErr", "labelErr"}

\* what becomes of createPR when a failure of addLabels is returned
createPR_labelFatal(r, o) ==
    IF o /= "ok"
    THEN [err |-> TRUE, url |-> ""]
    ELSE [err |-> FALSE, url |-> "https://github.com/pull/" \o r.CommitBranch]

\* createPR: the pull request's URL; a failure of addLabels is only logged
createPR(r, o) ==
    IF o = "createErr"
    THEN [err |-> TRUE, url |-> ""]
    ELSE [err |-> FALSE, url |-> "https://github.com/pull/" \o r.CommitBranch]

\* Release.Commit: getRef, getTree, pushCommit, the first error returned.
\* o = [ref, tree, push]: the outcomes of their GitHub calls; e is what getTree's
\* loop over r.Changes gives under the outcomes of its content fetches (the loop
\* reads neither the ref nor the refs, so it is computed once for all o).
Commit(rs, r, e, o) ==
    LET ref == getRef(rs, r, o.ref) IN
    IF ref.err THEN [panic |-> FALSE, err |-> TRUE, refs |-> rs]
    ELSE LET tree == createTree(e, o.tree)
         IN  IF tree.panic THEN [panic |-> TRUE, err |-> FALSE, refs |-> ref.refs]
             ELSE IF tree.err THEN [panic |-> FALSE, err |-> TRUE, refs |-> ref.refs]
             ELSE LET push == pushCommit(ref.refs, r, o.push)
                  IN  [panic |-> FALSE, err |-> push.err, refs |-> push.refs]

\* the outcomes a Commit call is run under: at most one of the GitHub calls of
\* getRef, of Git.CreateTree and of pushCommit fails
CommitOutcomes ==
    {o \in [ref : GetRefOutcomes, tree : BOOLEAN, push : PushCommitOutcomes] :
        Cardinality((IF o.ref = "ok" THEN {} ELSE {"ref"})
                    \cup (IF o.tree THEN {} ELSE {"tree"})
                    \cup (IF o.push = "ok" THEN {} ELSE {"push"})) <= 1}

\* what getTree's loop gives for release r when every content fetch has outcome
\* fetchOk and every Regexp.Replace outcome replaceOk
EntriesOf(r, fs, fetchOk, replaceOk) ==
    treeEntries(r, fs, [i \in 1..Len(r.Changes) |-> fetchOk],
                [i \in 1..Len(r.Changes) |-> replaceOk], 1, EmptyMap)

---------------------------------------------------------------------------
(* processImage and process *)

retryCommitTries == 3

\* retry.DelayType of process: the seconds waited before retry n
DelayType(n) == 3

\* a retry that allows one attempt more
Attempts_oneMore(rv) == IF rv = RevOld THEN retryCommitTries + 1 ELSE 1

\* how many times process calls release.Commit at most: retry.Attempts(retryCommitTries)
\* in src/unnamed/part_000, one direct call in src/flow/process.go
Attempts(rv) == IF rv = RevOld THEN retryCommitTries ELSE 1

\* getApplicationByImage: the first application of the catalog with this image
\* what becomes of the lookup when a later match replaces an earlier one
RECURSIVE getApplicationByImage_lastMatch(_, _, _)
getApplicationByImage_lastMatch(list, img, i) ==
    IF i > Len(list) THEN [err |-> "No application found for image " \o img, app |-> None]
    ELSE LET rest == getApplicationByImage_lastMatch(list, img, i + 1) IN
         IF rest.err = Null THEN rest
         ELSE IF img = list[i].Image THEN [err |-> Null, app |-> list[i]]
         ELSE rest

RECURSIVE getApplicationByImage(_, _, _)
getApplicationByImage(list, img, i) ==
    IF i > Len(list) THEN [err |-> "No application found for image " \o img, app |-> None]
    ELSE IF img = list[i].Image THEN [err |-> Null, app |-> list[i]]
    ELSE getApplicationByImage(list, img, i + 1)

\* newRelease and the registration of the changes, as the running revision does them
releaseOf(rv, a, m, v) ==
    registerChanges(rv,
                    IF rv = RevNew THEN newRelease(a, m, v) ELSE newRelease_part000(a, m, v),
                    a, m, v, 1)

\* one gitbot (or notifier) call, as recorded in calls
Call(op, m, ok, wait) == [op |-> op, m |-> m, ok |-> ok, wait |-> wait]

\* "return prs" in place of "continue": the loop ends at the first error
continueAfterError_return(i) == Len(app.Manifests) + 1

\* "continue" after a Commit or CreatePR error: the loop goes on with the next manifest
continueAfterError(i) == i + 1

\* prs after CreatePR returned res for manifest m
prsAfterCreatePR(ps, m, res) ==
    IF res.err THEN ps
    ELSE Append(ps, [env |-> m.Env, url |-> res.url, err |-> Null])

\* processImage up to the call of process
ProcessImage ==
    /\ pc = "start"
    /\ LET found == getApplicationByImage(cfg.ApplicationList, image, 1) IN
       IF found.err /= Null
       THEN /\ pc' = "done"
            /\ ret' = [err |-> found.err]
            /\ UNCHANGED <<app, idx>>
       ELSE /\ app' = found.app
            /\ idx' = 1
            /\ pc' = "loop"
            /\ ret' = ret
    /\ UNCHANGED <<rev, cfg, image, version, release, tries, prs, skipped, calls,
                   refs, files, arg>>

\* the head of one loop iteration: the filter, newRelease, the changes
BeginManifest ==
    /\ pc = "loop"
    /\ idx <= Len(app.Manifests)
    /\ LET m == app.Manifests[idx] IN
       IF ~shouldProcess(m, version)
       THEN /\ skipped' = skipped \cup {idx}
            /\ idx' = idx + 1
            /\ UNCHANGED <<pc, release, tries>>
       ELSE /\ release' = releaseOf(rev, app, m, version)
            /\ tries' = 0
            /\ pc' = "commit"
            /\ UNCHANGED <<skipped, idx>>
    /\ UNCHANGED <<rev, cfg, image, version, app, prs, calls, refs, files, arg, ret>>

\* one call of release.Commit, and what process does with its result
CommitAttempt ==
    /\ pc = "commit"
    /\ \E fetchOk \in BOOLEAN, replaceOk \in BOOLEAN :
       \E e \in {EntriesOf(release, files, fetchOk, replaceOk)}, o \in CommitOutcomes :
        LET res  == Commit(refs, release, e, o)
            wait == IF tries = 0 THEN 0 ELSE DelayType(tries)
        IN  /\ refs' = res.refs
            /\ calls' = Append(calls, Call("Commit", idx, ~res.panic /\ ~res.err, wait))
            /\ IF res.panic
               THEN /\ pc' = "panic"
                    /\ tries' = tries + 1
                    /\ UNCHANGED <<idx, release>>
               ELSE IF res.err
               THEN IF tries + 1 < Attempts(rev)
                    THEN /\ tries' = tries + 1
                         /\ UNCHANGED <<pc, idx, release>>
                    ELSE /\ tries' = tries + 1
                         /\ idx' = continueAfterError(idx)
                         /\ release' = None
                         /\ pc' = "loop"
               ELSE /\ tries' = tries + 1
                    /\ IF app.Manifests[idx].CommitWithoutPR
                       THEN /\ idx' = idx + 1
                            /\ release' = None
                            /\ pc' = "loop"
                       ELSE /\ pc' = "pr"
                            /\ UNCHANGED <<idx, release>>
    /\ UNCHANGED <<rev, cfg, image, version, app, prs, skipped, files, arg, ret>>

\* release.CreatePR, and what process does with its result
CreatePR ==
    /\ pc = "pr"
    /\ \E o \in CreatePROutcomes :
        LET res == createPR(release, o) IN
        /\ calls' = Append(calls, Call("CreatePR", idx, ~res.err, 0))
        /\ prs' = prsAfterCreatePR(prs, app.Manifests[idx], res)
        /\ idx' = IF res.err THEN continueAfterError(idx) ELSE idx + 1
    /\ release' = None
    /\ pc' = "loop"
    /\ UNCHANGED <<rev, cfg, image, version, app, tries, skipped, refs, files, arg, ret>>

\* the loop is over: process returns prs; src/unnamed/part_000 then notifies
Return ==
    /\ pc = "loop"
    /\ idx > Len(app.Manifests)
    /\ IF rev = RevOld
       THEN pc' = "notify" /\ ret' = ret
       ELSE pc' = "done" /\ ret' = [err |-> Null]
    /\ UNCHANGED <<rev, cfg, image, version, app, idx, release, tries, prs, skipped,
                   calls, refs, files, arg>>

\* notifyReleasePR: one message posted, its error returned by processImage
NotifyReleasePR ==
    /\ pc = "notify"
    /\ \E ok \in BOOLEAN :
        /\ calls' = Append(calls, Call("Post", 0, ok, 0))
        /\ ret' = [err |-> IF ok THEN Null ELSE "post failed"]
    /\ pc' = "done"
    /\ UNCHANGED <<rev, cfg, image, version, app, idx, release, tries, prs, skipped,
                   refs, files, arg>>

---------------------------------------------------------------------------
(* The events and configurations explored *)

MaxManifests == 2

Envs == <<"dev", "prod", "stg", "qa">>

Versions == {"", "latest", "v1.0", "v2.0"}

Filters(include, exclude) == [IncludePrefixes |-> include, ExcludePrefixes |-> exclude]

ProcFilters == {Filters(<<>>, <<>>), Filters(<<"v1">>, <<>>)}

\* the manifests an application may have at position i
ProcManifests(i) ==
    [Env : {Envs[i]}, Files : {<<"deploy.yaml">>}, Filters : ProcFilters,
     BaseBranch : {""}, CommitWithoutPR : BOOLEAN, ShowSourceOwner : {FALSE},
     ShowSourceName : {TRUE}, HideSourceName : {FALSE}, Labels : {<<>>}]

ManifestLists ==
    UNION {{ms \in [1..n -> UNION {ProcManifests(i) : i \in 1..n}] :
                \A i \in 1..n : ms[i] \in ProcManifests(i)} : n \in 1..MaxManifests}

ProcApps ==
    [Image : {"img/app", "img/app("}, SourceOwner : {"acme"}, SourceName : {"app"},
     ManifestBaseBranch : {"main"}, RewriteVersion : {TRUE}, RewriteNewTag : {FALSE},
     AdditionalRewriteKeys : {<<>>}, AdditionalRewritePrefix : {<<>>},
     Manifests : ManifestLists]

\* the manifest repository before the event: its base branches
InitRefs == [b \in {"master", "main"} |-> <<"initial commit">>]

ProcFiles == [f \in {"deploy.yaml"} |-> <<"img/app:v0", "version: v0">>]

Init ==
    /\ rev \in {RevNew, RevOld}
    /\ \E a \in ProcApps :
        /\ cfg = [DefaultBranch |-> "", ApplicationList |-> <<a>>]
        /\ image \in {a.Image, "img/none"}
    /\ version \in Versions
    /\ app = None
    /\ pc = "start"
    /\ idx = 0
    /\ release = None
    /\ tries = 0
    /\ prs = <<>>
    /\ skipped = {}
    /\ calls = <<>>
    /\ refs = InitRefs
    /\ files = ProcFiles
    /\ arg = None
    /\ ret = None

Next ==
    \/ ProcessImage
    \/ BeginManifest
    \/ CommitAttempt
    \/ CreatePR
    \/ Return
    \/ NotifyReleasePR

Spec == Init /\ [][Next]_vars

---------------------------------------------------------------------------
(* What the history of an event says *)

\* process was entered and has returned (a panic never returns)
Returned == app /= None /\ pc \in {"notify", "done"}

ManifestIdx == IF app = None THEN {} ELSE 1..Len(app.Manifests)

\* manifest i's turn in the loop is over
Finished(i) == Returned \/ (pc \in {"loop", "commit", "pr"} /\ i < idx)

CommitCalls(i) == {k \in DOMAIN calls : calls[k].op = "Commit" /\ calls[k].m = i}

PRCalls(i) == {k \in DOMAIN calls : calls[k].op = "CreatePR" /\ calls[k].m = i}

\* the entries of prs for manifest i's environment
Results(i) == {k \in DOMAIN prs : prs[k].env = app.Manifests[i].Env}

\* every Commit call made for manifest i failed, and there is one
CommitFailed(i) ==
    /\ CommitCalls(i) /= {}
    /\ \A k \in CommitCalls(i) : ~calls[k].ok

CommitSucceeded(i) == \E k \in CommitCalls(i) : calls[k].ok

PRFailed(i) == \E k \in PRCalls(i) : ~calls[k].ok

---------------------------------------------------------------------------
(* C1 *)

\* C1: when process has returned, every manifest that passed shouldProcess and is
\* not committed without a pull request has exactly one entry in prs, which
\* carries the error when its commit failed on every attempt or the creation of
\* its pull request failed, and the URL otherwise.
C1_OneResultPerManifest ==
    Returned =>
        \A i \in ManifestIdx :
            (i \notin skipped /\ ~app.Manifests[i].CommitWithoutPR) =>
                /\ Cardinality(Results(i)) = 1
                /\ \A k \in Results(i) :
                      IF CommitFailed(i) \/ PRFailed(i)
                      THEN prs[k].err /= Null
                      ELSE prs[k].err = Null /\ prs[k].url /= ""

---------------------------------------------------------------------------
(* C2 *)

\* a Commit call that succeeds is possible now
CommitCanSucceed ==
    \E fetchOk \in BOOLEAN :
        \E e \in {EntriesOf(release, files, fetchOk, TRUE)}, o \in CommitOutcomes :
            LET res == Commit(refs, release, e, o) IN ~res.err /\ ~res.panic

\* C2: a commit or pull-request failure ends only its own manifest's turn: when
\* process has returned every manifest that passes shouldProcess has been
\* attempted, the calls were made in manifest order (none for a manifest once a
\* later one has been called for), and whenever a manifest is about to be
\* committed a successful commit is possible, whatever failed before.
C2_FailureAbortsOnlyThatManifest ==
    /\ Returned =>
          \A i \in ManifestIdx :
              shouldProcess(app.Manifests[i], version) => CommitCalls(i) /= {}
    /\ \A k, l \in DOMAIN calls :
          (k < l /\ calls[l].op /= "Post") => calls[k].m <= calls[l].m
    /\ \A k \in DOMAIN calls : calls[k].op /= "Post" => calls[k].m <= idx
    /\ (pc = "commit" /\ release.BaseBranch \in DOMAIN refs) => CommitCanSucceed

\* an earlier manifest failed (its commit, or its pull request) and a later one
\* got its pull request
C2_Witness ==
    /\ Returned
    /\ \E i, j \in ManifestIdx :
          /\ i < j
          /\ CommitFailed(i) \/ PRFailed(i)
          /\ \E k \in PRCalls(j) : calls[k].ok

---------------------------------------------------------------------------
(* C3 *)

---------------------------------------------------------------------------
(* C7 *)

\* the derived branch name of manifest i under the running revision
BranchNameOf(i) ==
    IF rev = RevNew THEN getBranchName(app, app.Manifests[i], version)
                    ELSE getBranchName_part000(app, app.Manifests[i], version)

\* the commit message of manifest i under the running revision
MessageOf(i) ==
    IF rev = RevNew THEN getCommitMessage(app, app.Manifests[i], version)
                    ELSE getCommitMessage_part000(app, app.Manifests[i], version)

InBranch(msg, b) == b \in DOMAIN refs /\ \E k \in DOMAIN refs[b] : refs[b][k] = msg

\* C7: a manifest with CommitWithoutPR has the base branch as its commit branch,
\* its commit is on the base branch, no branch is derived for it, CreatePR is never
\* called for it and prs has no entry for it; a manifest without it commits to the
\* derived branch (the base branch stays as it was), and its successful Commit is
\* followed at once by exactly one CreatePR call.
C7_CommitWithoutPR ==
    /\ pc \in {"commit", "pr"} =>
          release.CommitBranch =
              IF app.Manifests[idx].CommitWithoutPR
              THEN release.BaseBranch ELSE BranchNameOf(idx)
    /\ \A i \in ManifestIdx :
          IF app.Manifests[i].CommitWithoutPR
          THEN /\ PRCalls(i) = {}
               /\ Results(i) = {}
               /\ BranchNameOf(i) \notin DOMAIN refs
               /\ CommitSucceeded(i) => InBranch(MessageOf(i), "main")
          ELSE /\ CommitSucceeded(i) =>
                      /\ InBranch(MessageOf(i), BranchNameOf(i))
                      /\ ~InBranch(MessageOf(i), "main")
               /\ Cardinality(PRCalls(i)) <= 1
               /\ \A k \in CommitCalls(i) :
                      calls[k].ok =>
                          \/ k = Len(calls) /\ pc = "pr" /\ idx = i
                          \/ /\ k < Len(calls)
                             /\ calls[k + 1].op = "CreatePR"
                             /\ calls[k + 1].m = i

\* both kinds of manifest committed in one event: the direct one on the base
\* branch without a pull request, the other with its pull request
C7_Witness ==
    /\ Returned
    /\ \E i, j \in ManifestIdx :
          /\ app.Manifests[i].CommitWithoutPR
          /\ CommitSucceeded(i)
          /\ ~app.Manifests[j].CommitWithoutPR
          /\ CommitSucceeded(j)
          /\ \E k \in PRCalls(j) : calls[k].ok
          /\ Len(prs) = 1

---------------------------------------------------------------------------
(* Functions applied on their own: arg holds the arguments, ret the result *)

\* the event machinery at rest
Idle ==
    /\ rev = RevNew
    /\ image = ""
    /\ version = ""
    /\ app = None
    /\ pc = "off"
    /\ idx = 0
    /\ release = None
    /\ tries = 0
    /\ prs = <<>>
    /\ skipped = {}
    /\ calls = <<>>
    /\ refs = InitRefs
    /\ files = ProcFiles

eventVars == <<rev, image, version, app, pc, idx, release, tries, prs, skipped,
               calls, refs, files>>

MaxPrefixes == 2

\* the sequences of at most n elements of S
SeqsUpTo(S, n) == UNION {[1..k -> S] : k \in 0..n}

---------------------------------------------------------------------------
(* shouldProcess on its own *)

FilterPrefixes == {"", "v1", "v1.1", "latest"}

FilterVersions == {"", "latest", "latest-1", "v1.0", "v1.1", "v2.0"}

InitFilter ==
    /\ Idle
    /\ cfg = [DefaultBranch |-> "", ApplicationList |-> <<>>]
    /\ \E inc \in SeqsUpTo(FilterPrefixes, MaxPrefixes),
          exc \in SeqsUpTo(FilterPrefixes, MaxPrefixes),
          v \in FilterVersions :
            arg = [m |-> [Filters |-> Filters(inc, exc)], v |-> v]
    /\ ret = None

CallShouldProcess ==
    /\ ret = None
    /\ ret' = [value |-> shouldProcess(arg.m, arg.v)]
    /\ UNCHANGED <<eventVars, cfg, arg>>

SpecFilter == InitFilter /\ [][CallShouldProcess]_vars

\* some entry of prefixes is a prefix of v
SomePrefixOf(prefixes, v) == \E k \in DOMAIN prefixes : HasPrefix(v, prefixes[k])

\* C5 as stated: with empty includePrefixes, shouldProcess(m, v) is the negation of
\* "some entry of excludePrefixes is a prefix of v", for every version v.
C5_Original ==
    (ret /= None /\ arg.m.Filters.IncludePrefixes = <<>>) =>
        ret.value = ~SomePrefixOf(arg.m.Filters.ExcludePrefixes, arg.v)

\* C5, amended: with empty includePrefixes and a version other than "" and
\* "latest", shouldProcess(m, v) is the negation of "some entry of excludePrefixes
\* is a prefix of v"; for "" and "latest" it is false.
C5_EmptyIncludes ==
    (ret /= None /\ arg.m.Filters.IncludePrefixes = <<>>) =>
        IF arg.v \in {"", "latest"}
        THEN ret.value = FALSE
        ELSE ret.value = ~SomePrefixOf(arg.m.Filters.ExcludePrefixes, arg.v)

\* no include prefix, two exclude prefixes of which only the second matches
C5_Witness ==
    /\ ret /= None
    /\ arg.m.Filters.IncludePrefixes = <<>>
    /\ arg.m.Filters.ExcludePrefixes = <<"latest", "v1.1">>
    /\ arg.v = "v1.1"
    /\ ret.value = FALSE

\* C6 as stated: with non-empty includePrefixes and empty excludePrefixes,
\* shouldProcess(m, v) is "some entry of includePrefixes is a prefix of v", for
\* every version v.
C6_Original ==
    (/\ ret /= None
     /\ arg.m.Filters.IncludePrefixes /= <<>>
     /\ arg.m.Filters.ExcludePrefixes = <<>>) =>
        ret.value = SomePrefixOf(arg.m.Filters.IncludePrefixes, arg.v)

\* C6, amended: with non-empty includePrefixes, empty excludePrefixes and a
\* version other than "" and "latest", shouldProcess(m, v) is "some entry of
\* includePrefixes is a prefix of v"; for "" and "latest" it is false.
C6_OnlyIncludes ==
    (/\ ret /= None
     /\ arg.m.Filters.IncludePrefixes /= <<>>
     /\ arg.m.Filters.ExcludePrefixes = <<>>) =>
        IF arg.v \in {"", "latest"}
        THEN ret.value = FALSE
        ELSE ret.value = SomePrefixOf(arg.m.Filters.IncludePrefixes, arg.v)

\* only include prefixes, none of them a prefix of the version: rejected
C6_Witness ==
    /\ ret /= None
    /\ arg.m.Filters.IncludePrefixes = <<"v1.1", "latest">>
    /\ arg.m.Filters.ExcludePrefixes = <<>>
    /\ arg.v = "v1.0"
    /\ ret.value = FALSE

---------------------------------------------------------------------------
(* One event for an application of one manifest, under every filter *)

EventPrefixes == {"v1", "v1.1"}

EventVersions == {"", "latest", "v1.0", "v1.1", "v2.0"}

EventApps ==
    [Image : {"img/app"}, SourceOwner : {"acme"}, SourceName : {"app"},
     ManifestBaseBranch : {"main"}, RewriteVersion : {TRUE}, RewriteNewTag : {FALSE},
     AdditionalRewriteKeys : {<<>>}, AdditionalRewritePrefix : {<<>>},
     Manifests :
        {<<m>> : m \in
            [Env : {Envs[1]}, Files : {<<"deploy.yaml">>},
             Filters : {Filters(inc, exc) :
                            inc \in SeqsUpTo(EventPrefixes, MaxPrefixes),
                            exc \in SeqsUpTo(EventPrefixes, MaxPrefixes)},
             BaseBranch : {""}, CommitWithoutPR : BOOLEAN, ShowSourceOwner : {FALSE},
             ShowSourceName : {TRUE}, HideSourceName : {FALSE}, Labels : {<<>>}]}]

InitEvent ==
    /\ rev \in {RevNew, RevOld}
    /\ \E a \in EventApps :
        /\ cfg = [DefaultBranch |-> "", ApplicationList |-> <<a>>]
        /\ image = a.Image
    /\ version \in EventVersions
    /\ app = None
    /\ pc = "start"
    /\ idx = 0
    /\ release = None
    /\ tries = 0
    /\ prs = <<>>
    /\ skipped = {}
    /\ calls = <<>>
    /\ refs = InitRefs
    /\ files = ProcFiles
    /\ arg = None
    /\ ret = None

SpecEvent == InitEvent /\ [][Next]_vars

\* what the claim says of shouldProcess(m, v)
C4_Expected(m, v) ==
    IF v = "" \/ v = "latest" THEN FALSE
    ELSE IF SomePrefixOf(m.Filters.ExcludePrefixes, v) THEN FALSE
    ELSE IF m.Filters.IncludePrefixes = <<>> THEN TRUE
    ELSE SomePrefixOf(m.Filters.IncludePrefixes, v)

\* C4: process takes up a manifest exactly when the version is neither "" nor
\* "latest", no exclude prefix is a prefix of it, and the include prefixes are
\* empty or one of them is a prefix of it; for the version "" or "latest" every
\* manifest is skipped, no gitbot call is made, the refs of the repository stay
\* as they were and the result is empty.
C4_Filter ==
    /\ \A i \in ManifestIdx :
          /\ i \in skipped => ~C4_Expected(app.Manifests[i], version)
          /\ (Finished(i) /\ i \notin skipped) => C4_Expected(app.Manifests[i], version)
          /\ (pc \in {"commit", "pr"} /\ i = idx) => C4_Expected(app.Manifests[i], version)
    /\ version \in {"", "latest"} =>
          /\ \A k \in DOMAIN calls : calls[k].op = "Post"
          /\ prs = <<>>
          /\ refs = InitRefs
          /\ release = None
          /\ Returned => skipped = ManifestIdx

\* an event with version "latest" has returned with its manifest skipped, and
\* (another event) a version that an include and an exclude prefix both match
C4_Witness ==
    /\ Returned
    /\ skipped = {1}
    /\ \/ version = "latest" /\ app.Manifests[1].Filters.IncludePrefixes = <<>>
       \/ /\ version = "v1.1"
          /\ app.Manifests[1].Filters = Filters(<<"v1">>, <<"v1", "v1.1">>)

---------------------------------------------------------------------------
(* newRelease on its own *)

ReleaseApps ==
    [Image : {"img/app"}, SourceOwner : {"acme"}, SourceName : {"app"},
     ManifestBaseBranch : {"", "main"}]

ReleaseManifests ==
    [Env : {"prod"}, Files : {<<"deploy.yaml">>}, BaseBranch : {"", "stable"},
     CommitWithoutPR : BOOLEAN, ShowSourceOwner : BOOLEAN,
     ShowSourceName : BOOLEAN, HideSourceName : BOOLEAN, Labels : {<<>>, <<"auto">>}]

InitRelease ==
    /\ Idle
    /\ cfg \in [DefaultBranch : {"", "develop"}, ApplicationList : {<<>>}]
    /\ arg \in [rev : {RevNew, RevOld}, a : ReleaseApps, m : ReleaseManifests,
                v : {"v1.2.3"}]
    /\ ret = None

CallNewRelease ==
    /\ ret = None
    /\ ret' = IF arg.rev = RevNew THEN newRelease(arg.a, arg.m, arg.v)
                                  ELSE newRelease_part000(arg.a, arg.m, arg.v)
    /\ UNCHANGED <<eventVars, cfg, arg>>

SpecRelease == InitRelease /\ [][CallNewRelease]_vars

\* C8: the base branch of the Release newRelease builds is manifest.BaseBranch
\* when that is non-empty, else app.ManifestBaseBranch when non-empty, else
\* cfg.DefaultBranch when non-empty, else "master"; it is never empty.
C8_BaseBranchResolution ==
    ret /= None =>
        /\ ret.BaseBranch =
              IF arg.m.BaseBranch /= "" THEN arg.m.BaseBranch
              ELSE IF arg.a.ManifestBaseBranch /= "" THEN arg.a.ManifestBaseBranch
              ELSE IF cfg.DefaultBranch /= "" THEN cfg.DefaultBranch
              ELSE "master"
        /\ ret.BaseBranch /= ""

---------------------------------------------------------------------------
(* getTree on its own: the changes process registers, applied to the base branch *)

\* the base branch: one file the rules match, one they do not
TreeFiles ==
    [f \in {"deploy.yaml", "config.yaml"} |->
        IF f = "deploy.yaml" THEN <<"img/app:v0", "version: v0">>
                             ELSE <<"replicas: 2">>]

TreeApps ==
    [Image : {"img/app", "img/app("}, SourceOwner : {"acme"}, SourceName : {"app"},
     ManifestBaseBranch : {"main"}, RewriteVersion : BOOLEAN, RewriteNewTag : {FALSE},
     AdditionalRewriteKeys : {<<>>, <<"tag">>},
     AdditionalRewritePrefix : {<<>>, <<"version: v1">>}]

TreeManifests ==
    [Env : {"prod"},
     Files : {<<"deploy.yaml">>, <<"config.yaml">>, <<"deploy.yaml", "config.yaml">>,
              <<"deploy.yaml", "missing.yaml">>},
     BaseBranch : {""}, CommitWithoutPR : {FALSE}, ShowSourceOwner : {FALSE},
     ShowSourceName : {TRUE}, HideSourceName : {FALSE}, Labels : {<<>>}]

InitTree ==
    /\ rev = RevNew
    /\ image = ""
    /\ version = ""
    /\ app = None
    /\ pc = "off"
    /\ idx = 0
    /\ release = None
    /\ tries = 0
    /\ prs = <<>>
    /\ skipped = {}
    /\ calls = <<>>
    /\ refs = InitRefs
    /\ files = TreeFiles
    /\ cfg = [DefaultBranch |-> "", ApplicationList |-> <<>>]
    /\ \E rv \in {RevNew, RevOld}, a \in TreeApps, m \in TreeManifests :
          arg = [rev |-> rv, a |-> a, m |-> m, v |-> "v1.0",
                 r |-> releaseOf(rv, a, m, "v1.0")]
    /\ ret = None

CallGetTree ==
    /\ ret = None
    /\ \E fetchOk \in [1..Len(arg.r.Changes) -> BOOLEAN], replaceOk \in BOOLEAN,
          createOk \in BOOLEAN :
          ret' = [tree      |-> getTree(arg.r, files, fetchOk,
                                        [i \in 1..Len(arg.r.Changes) |-> replaceOk],
                                        createOk),
                  fetchOk   |-> fetchOk,
                  replaceOk |-> replaceOk]
    /\ UNCHANGED <<eventVars, cfg, arg>>

SpecTree == InitTree /\ [][CallGetTree]_vars

\* the changes of r registered for path
ChangesOf(r, path) == {i \in DOMAIN r.Changes : r.Changes[i].filePath = path}

\* rule i of r is one that compiles, applies and matches a line of content
GoodRule(r, i, content, replaceOk) ==
    /\ Compiles(r.Changes[i].regexText)
    /\ replaceOk
    /\ \E k \in DOMAIN content :
          MatchPositions(Pattern(r.Changes[i].regexText), content[k]) /= {}

\* C9: a rule that fails to compile, to apply or to match never aborts getTree,
\* and a file none of whose rules compiles, applies and matches keeps, in the
\* tree, exactly the content it has on the base branch.
C9_FailSoft ==
    ret /= None =>
        /\ ~ret.tree.panic
        /\ \A path \in DOMAIN ret.tree.entries :
              (\A i \in ChangesOf(arg.r, path) :
                    ~GoodRule(arg.r, i, files[path], ret.replaceOk))
              => ret.tree.entries[path] = files[path]

\* C10: when every call getTree makes succeeds, every entry of the tree is a
\* file whose content at least one rule changed; a file no rule matched is not
\* among the entries.
C10_OnlyChangedFiles ==
    (/\ ret /= None
     /\ ~ret.tree.panic /\ ~ret.tree.err /\ ret.replaceOk
     /\ \A i \in DOMAIN ret.fetchOk : ret.fetchOk[i]) =>
        \A path \in DOMAIN ret.tree.entries : ret.tree.entries[path] /= files[path]

---------------------------------------------------------------------------
(* C11: one entry per path, the changes applied cumulatively in registration order *)

\* the rules the claim lists for one file, in its order: image tag, version key,
\* additional keys, additional prefixes (pattern and replacement)
RECURSIVE KeyRules(_, _, _)
KeyRules(keys, v, i) ==
    IF i > Len(keys) THEN <<>>
    ELSE <<[regexText |-> keys[i] \o ": +(?<version>.*)",
            changedText |-> keys[i] \o ": " \o v]>> \o KeyRules(keys, v, i + 1)

RECURSIVE PrefixRules(_, _, _)
PrefixRules(prefixes, v, i) ==
    IF i > Len(prefixes) THEN <<>>
    ELSE <<[regexText |-> prefixes[i] \o "(?<version>.*)",
            changedText |-> prefixes[i] \o v]>> \o PrefixRules(prefixes, v, i + 1)

ExpectedRules(a, v) ==
    <<[regexText |-> a.Image \o ":(?<version>.*)", changedText |-> a.Image \o ":" \o v],
      [regexText |-> versionRewriteRegex, changedText |-> "version: " \o v]>>
    \o KeyRules(a.AdditionalRewriteKeys, v, 1)
    \o PrefixRules(a.AdditionalRewritePrefix, v, 1)

\* the rules of r registered for path, in registration order
RECURSIVE RulesOf(_, _, _)
RulesOf(r, path, i) ==
    IF i > Len(r.Changes) THEN <<>>
    ELSE (IF r.Changes[i].filePath = path
          THEN <<[regexText |-> r.Changes[i].regexText,
                  changedText |-> r.Changes[i].changedText]>>
          ELSE <<>>) \o RulesOf(r, path, i + 1)

\* content after rules i.. of the sequence rules, each applied to the output of
\* the one before
RECURSIVE ApplyInOrder(_, _, _)
ApplyInOrder(rules, content, i) ==
    IF i > Len(rules) THEN content
    ELSE ApplyInOrder(rules, Replace(rules[i].regexText, content, rules[i].changedText),
                      i + 1)

\* every content fetch and every Regexp.Replace of the call succeeded
AllCallsOk ==
    /\ ret /= None
    /\ ~ret.tree.panic
    /\ ret.replaceOk
    /\ \A i \in DOMAIN ret.fetchOk : ret.fetchOk[i]

---------------------------------------------------------------------------
(* One event against catalogs of several applications *)

MaxApps == 2

CatalogApps ==
    [Image : {"img/app", "img/other"}, SourceOwner : {"acme"},
     SourceName : {"app", "app2"},
     ManifestBaseBranch : {"main"}, RewriteVersion : {TRUE}, RewriteNewTag : {FALSE},
     AdditionalRewriteKeys : {<<>>}, AdditionalRewritePrefix : {<<>>},
     Manifests :
        {<<m>> : m \in
            [Env : {Envs[1]}, Files : {<<"deploy.yaml">>},
             Filters : {Filters(<<>>, <<>>), Filters(<<>>, <<"v1">>)},
             BaseBranch : {""}, CommitWithoutPR : {FALSE}, ShowSourceOwner : {FALSE},
             ShowSourceName : {TRUE}, HideSourceName : {FALSE}, Labels : {<<>>}]}]

\* images of events: in the catalog, a proper prefix of one in it, unknown
CatalogImages == {"img/app", "img/other", "img/ap", "img/none"}

InitCatalog ==
    /\ rev \in {RevNew, RevOld}
    /\ cfg \in [DefaultBranch : {""}, ApplicationList : SeqsUpTo(CatalogApps, MaxApps)]
    /\ image \in CatalogImages
    /\ version = "v1.0"
    /\ app = None
    /\ pc = "start"
    /\ idx = 0
    /\ release = None
    /\ tries = 0
    /\ prs = <<>>
    /\ skipped = {}
    /\ calls = <<>>
    /\ refs = InitRefs
    /\ files = ProcFiles
    /\ arg = None
    /\ ret = None

SpecCatalog == InitCatalog /\ [][Next]_vars

\* the catalog positions whose Image equals the event's image
Matching == {i \in DOMAIN cfg.ApplicationList : cfg.ApplicationList[i].Image = image}

\* C12: once processImage has looked the image up, either no application of the
\* catalog has exactly that image, and then processImage has returned the "No
\* application found for image" error with no manifest filtered, no release
\* built, no git call made and no notification sent; or the application in use
\* is the first of the catalog with that image.
C12_ImageLookup ==
    pc /= "start" =>
        IF Matching = {}
        THEN /\ pc = "done"
             /\ ret = [err |-> "No application found for image " \o image]
             /\ app = None /\ release = None
             /\ skipped = {} /\ prs = <<>> /\ calls = <<>> /\ refs = InitRefs
        ELSE /\ app = cfg.ApplicationList[CHOOSE i \in Matching : \A j \in Matching : i <= j]
             /\ (pc = "done" /\ rev = RevNew) => ret = [err |-> Null]

\* an event for an image that is only a prefix of a catalog image has returned
\* the error; (another event) two applications share the image
C12_Witness ==
    \/ /\ pc = "done" /\ image = "img/ap" /\ Len(cfg.ApplicationList) = 2
       /\ ret = [err |-> "No application found for image img/ap"]
    \/ /\ pc = "done" /\ Cardinality(Matching) = 2
       /\ cfg.ApplicationList[1] /= cfg.ApplicationList[2]

---------------------------------------------------------------------------
(* getBranchName and getCommitMessage on their own *)

NamingApps == [Image : {"img/app"}, SourceOwner : {"acme"}, SourceName : {"app", "web"}]

NamingManifests ==
    [Env : {"prod", "dev"}, ShowSourceOwner : BOOLEAN, ShowSourceName : BOOLEAN,
     HideSourceName : BOOLEAN]

InitNaming ==
    /\ Idle
    /\ cfg = [DefaultBranch |-> "", ApplicationList |-> <<>>]
    /\ arg \in [rev : {RevNew, RevOld}, a : NamingApps, m : NamingManifests,
                v : {"v1.2.3", "v2"}]
    /\ ret = None

CallNames ==
    /\ ret = None
    /\ ret' = IF arg.rev = RevNew
              THEN [branch  |-> getBranchName(arg.a, arg.m, arg.v),
                    message |-> getCommitMessage(arg.a, arg.m, arg.v)]
              ELSE [branch  |-> getBranchName_part000(arg.a, arg.m, arg.v),
                    message |-> getCommitMessage_part000(arg.a, arg.m, arg.v)]
    /\ UNCHANGED <<eventVars, cfg, arg>>

SpecNaming == InitNaming /\ [][CallNames]_vars

\* the manifest's flags show the source name
NameShown == IF arg.rev = RevNew THEN ~arg.m.HideSourceName ELSE arg.m.ShowSourceName

\* none of the manifest's naming flags is set
NoNamingFlags == ~arg.m.ShowSourceOwner /\ ~arg.m.ShowSourceName /\ ~arg.m.HideSourceName

\* the general part of C13: the shape of the branch and of the message
C13_Shape ==
    LET envPrefix == IF arg.rev = RevNew THEN "rollout" ELSE "release"
        verb      == IF arg.rev = RevNew THEN "Rollout" ELSE "Release"
        owner(sep) == IF arg.m.ShowSourceOwner THEN arg.a.SourceOwner \o sep ELSE ""
    IN  /\ ret.branch = envPrefix \o "/" \o arg.m.Env
                \o (IF NameShown THEN "-" \o owner("-") \o arg.a.SourceName ELSE "")
                \o "-" \o arg.v
        /\ ret.message = verb \o " " \o arg.m.Env
                \o (IF NameShown THEN " " \o owner("/") \o arg.a.SourceName ELSE "")
                \o " " \o arg.v
        /\ ~NameShown => /\ ~Contains(ret.branch, arg.a.SourceOwner)
                         /\ ~Contains(ret.message, arg.a.SourceOwner)
                         /\ ~Contains(ret.branch, arg.a.SourceName)
                         /\ ~Contains(ret.message, arg.a.SourceName)

\* the example of C13 applies: prod, app, v1.2.3, no naming flag set
C13_Example ==
    /\ arg.m.Env = "prod" /\ arg.a.SourceName = "app" /\ arg.v = "v1.2.3"
    /\ NoNamingFlags

\* C13 as stated: the shape, and for prod, app, v1.2.3 and no naming flag set
\* the branch release/prod-app-v1.2.3 (or rollout/prod-app-v1.2.3) and the
\* commit message "Release prod app v1.2.3".
C13_Original ==
    ret /= None =>
        /\ C13_Shape
        /\ C13_Example =>
              /\ ret.branch \in {"release/prod-app-v1.2.3", "rollout/prod-app-v1.2.3"}
              /\ ret.message = "Release prod app v1.2.3"

\* C13 amended: the shape, and for prod, app, v1.2.3 and no naming flag set
\* src/flow/process.go gives rollout/prod-app-v1.2.3 and "Rollout prod app
\* v1.2.3" while src/unnamed/part_000 gives release/prod-v1.2.3 and "Release
\* prod v1.2.3"; the latter names the source only with ShowSourceName set.
C13_Naming ==
    ret /= None =>
        /\ C13_Shape
        /\ (C13_Example /\ arg.rev = RevNew) =>
              /\ ret.branch = "rollout/prod-app-v1.2.3"
              /\ ret.message = "Rollout prod app v1.2.3"
        /\ (C13_Example /\ arg.rev = RevOld) =>
              /\ ret.branch = "release/prod-v1.2.3"
              /\ ret.message = "Release prod v1.2.3"
        /\ (/\ arg.rev = RevOld /\ arg.m.Env = "prod" /\ arg.a.SourceName = "app"
            /\ arg.v = "v1.2.3" /\ arg.m.ShowSourceName /\ ~arg.m.ShowSourceOwner) =>
              /\ ret.branch = "release/prod-app-v1.2.3"
              /\ ret.message = "Release prod app v1.2.3"

\* the names of the example have been built by src/flow/process.go, and (another
\* call) names with the owner hidden together with the name
C13_Witness ==
    /\ ret /= None
    /\ \/ C13_Example /\ arg.rev = RevNew /\ ret.message = "Rollout prod app v1.2.3"
       \/ /\ arg.m.ShowSourceOwner /\ ~NameShown
          /\ ret.branch = "rollout/dev-v2"

---------------------------------------------------------------------------
(* The names built again while the global configuration changes *)

MaxCalls == 2

PureConfigs == [DefaultBranch : {"", "develop", "trunk"}, ApplicationList : {<<>>}]

PureApps ==
    [Image : {"img/app"}, SourceOwner : {"acme"}, SourceName : {"app", "web"},
     ManifestBaseBranch : {""}]

PureManifests ==
    [Env : {"prod", "dev"}, Files : {<<"deploy.yaml">>}, BaseBranch : {""},
     CommitWithoutPR : {FALSE}, ShowSourceOwner : BOOLEAN, ShowSourceName : BOOLEAN,
     HideSourceName : BOOLEAN, Labels : {<<>>}]

InitPure ==
    /\ Idle
    /\ cfg \in PureConfigs
    /\ arg \in [rev : {RevNew, RevOld}, a : PureApps, m : PureManifests, v : {"v1.2.3"}]
    /\ ret = <<>>

\* flow.New: the package variable cfg is set to another configuration
New ==
    /\ \E c \in PureConfigs : c /= cfg /\ cfg' = c
    /\ UNCHANGED <<eventVars, arg, ret>>

\* one more call of getBranchName, getCommitMessage and newRelease with arg
CallNamesAgain ==
    /\ Len(ret) < MaxCalls
    /\ ret' = Append(ret,
                IF arg.rev = RevNew
                THEN [branch  |-> getBranchName(arg.a, arg.m, arg.v),
                      message |-> getCommitMessage(arg.a, arg.m, arg.v),
                      commitBranch |-> newRelease(arg.a, arg.m, arg.v).CommitBranch,
                      cfg     |-> cfg]
                ELSE [branch  |-> getBranchName_part000(arg.a, arg.m, arg.v),
                      message |-> getCommitMessage_part000(arg.a, arg.m, arg.v),
                      commitBranch |-> newRelease_part000(arg.a, arg.m, arg.v).CommitBranch,
                      cfg     |-> cfg])
    /\ UNCHANGED <<eventVars, cfg, arg>>

NextPure == New \/ CallNamesAgain

SpecPure == InitPure /\ [][NextPure]_vars

---------------------------------------------------------------------------
(* createPR on its own, and the result entry process makes of it *)

PRManifests ==
    [Env : {"prod", "dev"}, Files : {<<"deploy.yaml">>}, BaseBranch : {"", "stable"},
     CommitWithoutPR : {FALSE}, ShowSourceOwner : BOOLEAN, ShowSourceName : BOOLEAN,
     HideSourceName : BOOLEAN, Labels : {<<>>, <<"auto">>}]

InitPR ==
    /\ Idle
    /\ cfg = [DefaultBranch |-> "", ApplicationList |-> <<>>]
    /\ \E rv \in {RevNew, RevOld}, a \in ReleaseApps, m \in PRManifests :
          arg = [rev |-> rv, m |-> m,
                 r |-> IF rv = RevNew THEN newRelease(a, m, "v1.0")
                                      ELSE newRelease_part000(a, m, "v1.0")]
    /\ ret = None

CallCreatePR ==
    /\ ret = None
    /\ \E o \in CreatePROutcomes :
        LET res == createPR(arg.r, o) IN
        ret' = [o |-> o, res |-> res, prs |-> prsAfterCreatePR(<<>>, arg.m, res)]
    /\ UNCHANGED <<eventVars, cfg, arg>>

SpecPR == InitPR /\ [][CallCreatePR]_vars

\* C15: when PullRequests.Create succeeded and addLabels failed, createPR
\* returns the pull request's URL and no error, and the result entry process
\* appends for the manifest carries that URL.
C15_LabelFailureNotFatal ==
    (ret /= None /\ ret.o = "labelErr") =>
        /\ ~ret.res.err
        /\ ret.res.url = "https://github.com/pull/" \o arg.r.CommitBranch
        /\ ret.prs = <<[env |-> arg.m.Env, url |-> ret.res.url, err |-> Null]>>

\* createPR has returned after a failure of addLabels on a release with labels
C15_Witness ==
    /\ ret /= None
    /\ ret.o = "labelErr"
    /\ Len(arg.r.Labels) = 3
    /\ Len(ret.prs) = 1

---------------------------------------------------------------------------
(* Release.Commit call by call: concurrent commit operations on one repository.
   A commit's SHA is modelled by its chain, the sequence of commits from the
   root to it, so that "descends from" is "has as a prefix"; refs maps a branch
   to the chain of its target. *)

Procs == {1, 2}

\* how many times the environment interferes: a GitHub call that fails, a push
\* by somebody else
MaxFaults == 1

IsPrefix(s, t) == Len(s) <= Len(t) /\ SubSeq(t, 1, Len(s)) = s

\* tree entries b laid over the contents a (Git.CreateTree with a base tree)
Overlay(a, b) == [q \in DOMAIN a \cup DOMAIN b |-> IF q \in DOMAIN b THEN b[q] ELSE a[q]]

\* the files of the commit a chain ends in (Repositories.GetContents at a ref)
RECURSIVE filesAt(_, _)
filesAt(chain, i) ==
    IF i = 0 THEN EmptyMap ELSE Overlay(filesAt(chain, i - 1), chain[i].tree)

RootCommit == [message |-> "initial commit", tree |-> TreeFiles, date |-> <<0, 0>>]

CommitRefs == [b \in {"main"} |-> <<RootCommit>>]

\* Git.GetRef of refs/heads/branch
readRef(rs, branch, ok) ==
    IF ok /\ branch \in DOMAIN rs THEN [err |-> FALSE, sha |-> rs[branch]]
    ELSE [err |-> TRUE, sha |-> <<>>]

\* what becomes of Git.CreateRef when it resets a ref that exists
createRef_reset(rs, branch, sha, ok) ==
    IF ok THEN [err |-> FALSE, refs |-> MapSet(rs, branch, sha)]
    ELSE [err |-> TRUE, refs |-> rs]

\* Git.CreateRef of refs/heads/branch at sha: fails when the ref exists
createRef(rs, branch, sha, ok) ==
    IF ok /\ branch \notin DOMAIN rs
    THEN [err |-> FALSE, refs |-> MapSet(rs, branch, sha)]
    ELSE [err |-> TRUE, refs |-> rs]

\* what becomes of the new commit when it is given no parent
newCommit_orphan(parent, r, tree, date) ==
    <<[message |-> r.Message, tree |-> tree, date |-> date]>>

\* the commit pushCommit creates: r.Message, the tree, the one parent, the
\* author's date (time.Now(), which tells two commits of equal content apart)
newCommit(parent, r, tree, date) ==
    Append(parent, [message |-> r.Message, tree |-> tree, date |-> date])

\* what becomes of the update when it is forced
forceUpdate_forced == TRUE

\* the force argument pushCommit gives Git.UpdateRef
forceUpdate == FALSE

\* Git.UpdateRef of refs/heads/branch to sha: unless forced, only a fast-forward
updateRef(rs, branch, sha, force, ok) ==
    IF ok /\ branch \in DOMAIN rs /\ (force \/ IsPrefix(rs[branch], sha))
    THEN [err |-> FALSE, refs |-> [rs EXCEPT ![branch] = sha]]
    ELSE [err |-> TRUE, refs |-> rs]

\* what becomes of the contents when they are read from the commit branch
contentBranch_commitBranch(r) == r.CommitBranch

\* the branch getTree reads the original contents from
contentBranch(r) == r.BaseBranch

\* one commit operation's local state when it starts (or starts again)
Local(r, n, lost) ==
    [pc |-> "getRef", r |-> r, tries |-> n, lost |-> lost, trace |-> <<>>,
     sha |-> <<>>, base |-> <<>>, created |-> FALSE, failedFetch |-> 0,
     fetched |-> EmptyMap, entries |-> EmptyMap, parent |-> <<>>, commit |-> <<>>]

\* the operation after a step failed: retry.Do of src/unnamed/part_000 calls
\* Commit again while attempts remain, src/flow/process.go gives up
AfterError(L, step) ==
    IF L.tries + 1 < Attempts(rev)
    THEN Local(L.r, L.tries + 1, L.lost)
    ELSE [L EXCEPT !.pc = "failed", !.tries = @ + 1, !.trace = Append(@, step)]

\* the operation after a step succeeded
Advance(L, step, pc2) == [L EXCEPT !.pc = pc2, !.trace = Append(@, step)]

CommitApps ==
    [Image : {"img/app"}, SourceOwner : {"acme"}, SourceName : {"app"},
     ManifestBaseBranch : {"main"}, RewriteVersion : {TRUE}, RewriteNewTag : {FALSE},
     AdditionalRewriteKeys : {<<>>}, AdditionalRewritePrefix : {<<>>}]

CommitManifests ==
    [Env : {"prod"},
     Files : {<<"config.yaml">>, <<"deploy.yaml", "missing.yaml">>},
     BaseBranch : {""}, CommitWithoutPR : BOOLEAN, ShowSourceOwner : {FALSE},
     ShowSourceName : {TRUE}, HideSourceName : {FALSE}, Labels : {<<>>}]

\* the variables a commit operation does not touch
commitFrame == <<rev, cfg, image, version, app, pc, idx, release, tries, prs, skipped,
                 calls, files, ret>>

\* two commit operations for one manifest: the same event processed twice, or
\* the events of two versions
InitCommit ==
    /\ rev \in {RevNew, RevOld}
    /\ cfg = [DefaultBranch |-> "", ApplicationList |-> <<>>]
    /\ image = ""
    /\ version = ""
    /\ app = None
    /\ pc = "off"
    /\ idx = 0
    /\ release = None
    /\ tries = 0
    /\ prs = <<>>
    /\ skipped = {}
    /\ calls = <<>>
    /\ refs = CommitRefs
    /\ files = TreeFiles
    /\ \E a \in CommitApps, m \in CommitManifests, v \in {"v1.0", "v2.0"} :
          arg = [proc   |-> [p \in Procs |->
                               Local(releaseOf(rev, a, m, IF p = 1 THEN "v1.0" ELSE v),
                                     0, 0)],
                 faults |-> 0]
    /\ ret = None

\* the outcomes of one GitHub call: it may fail while failures remain to inject
Outcomes == IF arg.faults < MaxFaults THEN BOOLEAN ELSE {TRUE}

\* operation p's local state becomes L2; a failure was injected when ~ok
SetLocal(p, L2, ok) ==
    arg' = [arg EXCEPT !.proc[p] = L2, !.faults = IF ok THEN @ ELSE @ + 1]

\* getRef: Git.GetRef of the commit branch
GetRef(p) ==
    LET L == arg.proc[p] IN
    /\ L.pc = "getRef"
    /\ \E ok \in Outcomes :
        LET res == readRef(refs, L.r.CommitBranch, ok) IN
        SetLocal(p, IF res.err THEN [L EXCEPT !.pc = "getBaseRef"]
                    ELSE Advance([L EXCEPT !.sha = res.sha], "GetRef", "fetch"), ok)
    /\ UNCHANGED <<commitFrame, refs>>

\* getRef: Git.GetRef of the base branch
GetBaseRef(p) ==
    LET L == arg.proc[p] IN
    /\ L.pc = "getBaseRef"
    /\ \E ok \in Outcomes :
        LET res == readRef(refs, L.r.BaseBranch, ok) IN
        SetLocal(p, IF res.err THEN AfterError(L, "GetRef")
                    ELSE [L EXCEPT !.pc = "createRef", !.base = res.sha], ok)
    /\ UNCHANGED <<commitFrame, refs>>

\* getRef: Git.CreateRef of the commit branch at the base branch's SHA
CreateRef(p) ==
    LET L == arg.proc[p] IN
    /\ L.pc = "createRef"
    /\ \E ok \in Outcomes :
        LET res == createRef(refs, L.r.CommitBranch, L.base, ok) IN
        /\ refs' = res.refs
        /\ SetLocal(p, IF res.err THEN AfterError(L, "GetRef")
                       ELSE Advance([L EXCEPT !.sha = L.base, !.created = TRUE],
                                    "GetRef", "fetch"), ok)
    /\ UNCHANGED commitFrame

\* getTree: the loop over r.Changes; the fetch made for change k fails (0: none)
FetchContents(p) ==
    LET L == arg.proc[p] IN
    /\ L.pc = "fetch"
    /\ \E k \in 0..Len(L.r.Changes) :
        /\ k > 0 => FALSE \in Outcomes
        /\ LET b  == contentBranch(L.r)
               fs == IF b \in DOMAIN refs THEN filesAt(refs[b], Len(refs[b])) ELSE EmptyMap
               e  == treeEntries(L.r, fs, [i \in 1..Len(L.r.Changes) |-> i /= k],
                                 [i \in 1..Len(L.r.Changes) |-> TRUE], 1, EmptyMap)
           IN  SetLocal(p, IF e.panic THEN [L EXCEPT !.pc = "panic"]
                           ELSE Advance([L EXCEPT !.entries = e.value, !.fetched = fs,
                                                  !.failedFetch = k],
                                        "GetContents", "createTree"), k = 0)
    /\ UNCHANGED <<commitFrame, refs>>

\* getTree: Git.CreateTree
CreateTree(p) ==
    LET L == arg.proc[p] IN
    /\ L.pc = "createTree"
    /\ \E ok \in Outcomes :
        LET t == createTree(Value(L.entries), ok) IN
        SetLocal(p, IF t.err THEN AfterError(L, "CreateTree")
                    ELSE Advance(L, "CreateTree", "getCommit"), ok)
    /\ UNCHANGED <<commitFrame, refs>>

\* pushCommit: Repositories.GetCommit of the resolved ref's SHA
GetCommit(p) ==
    LET L == arg.proc[p] IN
    /\ L.pc = "getCommit"
    /\ \E ok \in Outcomes :
        SetLocal(p, IF ~ok THEN AfterError(L, "GetCommit")
                    ELSE Advance([L EXCEPT !.parent = L.sha], "GetCommit", "createCommit"),
                 ok)
    /\ UNCHANGED <<commitFrame, refs>>

\* pushCommit: Git.CreateCommit
CreateCommit(p) ==
    LET L == arg.proc[p] IN
    /\ L.pc = "createCommit"
    /\ \E ok \in Outcomes :
        SetLocal(p, IF ~ok THEN AfterError(L, "CreateCommit")
                    ELSE Advance([L EXCEPT !.commit = newCommit(L.parent, L.r, L.entries,
                                                              <<p, L.tries>>)],
                                 "CreateCommit", "updateRef"), ok)
    /\ UNCHANGED <<commitFrame, refs>>

\* pushCommit: Git.UpdateRef, not forced
UpdateRef(p) ==
    LET L == arg.proc[p] IN
    /\ L.pc = "updateRef"
    /\ \E ok \in Outcomes :
        LET res == updateRef(refs, L.r.CommitBranch, L.commit, forceUpdate, ok) IN
        /\ refs' = res.refs
        /\ SetLocal(p, IF res.err
                       THEN AfterError([L EXCEPT !.lost = IF ok THEN @ + 1 ELSE @],
                                       "UpdateRef")
                       ELSE Advance(L, "UpdateRef", "done"), ok)
    /\ UNCHANGED commitFrame

\* somebody else pushes a commit that edits deploy.yaml to a branch
OutsidePush ==
    /\ arg.faults < MaxFaults
    /\ \E b \in DOMAIN refs :
        refs' = [refs EXCEPT ![b] =
                    Append(@, [message |-> "outside push",
                               tree |-> [f \in {"deploy.yaml"} |->
                                           <<"img/app:v0", "version: v0", "edited: yes">>],
                               date |-> <<0, 1>>])]
    /\ arg' = [arg EXCEPT !.faults = @ + 1]
    /\ UNCHANGED commitFrame

NextCommit ==
    \/ \E p \in Procs : GetRef(p)
    \/ \E p \in Procs : GetBaseRef(p)
    \/ \E p \in Procs : CreateRef(p)
    \/ \E p \in Procs : FetchContents(p)
    \/ \E p \in Procs : CreateTree(p)
    \/ \E p \in Procs : GetCommit(p)
    \/ \E p \in Procs : CreateCommit(p)
    \/ \E p \in Procs : UpdateRef(p)
    \/ OutsidePush

SpecCommit == InitCommit /\ [][NextCommit]_vars

\* operation p takes a step
Steps(p) == arg'.proc[p] /= arg.proc[p]

\* C16: no step moves a branch to a commit that does not descend from the
\* branch's target before the step, so no commit on a branch is lost; the
\* Git.UpdateRef of an operation whose new commit's parent is not the branch's
\* current target fails and leaves the refs alone, and then retry.Do of
\* src/unnamed/part_000 starts Commit again at getRef while attempts remain.
C16_NonForcedUpdate ==
    [][/\ \A b \in DOMAIN refs : b \in DOMAIN refs' /\ IsPrefix(refs[b], refs'[b])
       /\ \A p \in Procs :
            LET L == arg.proc[p] IN
            (/\ Steps(p) /\ L.pc = "updateRef"
             /\ L.r.CommitBranch \in DOMAIN refs
             /\ L.parent /= refs[L.r.CommitBranch]) =>
                /\ refs' = refs
                /\ arg'.proc[p].pc = IF rev = RevOld /\ L.tries + 1 < retryCommitTries
                                     THEN "getRef" ELSE "failed"
                /\ arg'.proc[p].tries = L.tries + 1]_vars

\* both operations committed to one branch: one lost the race for the ref, its
\* update failed, it resolved the ref again and put its commit on top
C16_Witness ==
    \E p \in Procs :
        LET L == arg.proc[p]
            b == L.r.CommitBranch
        IN  /\ L.pc = "done" /\ L.lost = 1
            /\ \A q \in Procs : arg.proc[q].pc = "done" /\ arg.proc[q].r.CommitBranch = b
            /\ refs[b] = L.commit
            /\ \A q \in Procs : \E k \in DOMAIN refs[b] : refs[b][k].date[1] = q

\* the calls of one commit attempt, in the order the claim gives its states:
\* ref resolving, content fetching, tree building, commit creating (GetCommit,
\* CreateCommit), ref updating
CallOrder == <<"GetRef", "GetContents", "CreateTree", "GetCommit", "CreateCommit",
               "UpdateRef">>

\* the calls the attempt in progress has made follow the order, it is done only
\* after UpdateRef, and its commit has the tree just built and, as its one
\* parent, the commit the ref resolved to
C17_AttemptShape ==
    \A p \in Procs :
        LET L == arg.proc[p] IN
        /\ IsPrefix(L.trace, CallOrder)
        /\ L.pc = "done" => L.trace = CallOrder /\ refs[L.r.CommitBranch] /= <<>>
        /\ L.commit /= <<>> =>
              /\ Len(L.commit) = Len(L.sha) + 1
              /\ SubSeq(L.commit, 1, Len(L.sha)) = L.sha
              /\ L.commit[Len(L.commit)].tree = L.entries
              /\ L.commit[Len(L.commit)].message = L.r.Message

\* C17: within one attempt the calls occur in the order ref resolving, content
\* fetching, tree building, commit creating, ref updating, and the attempt is
\* done only after a successful ref update; the commit created has the tree
\* just built and one parent, the commit the ref resolved to; and the target of
\* an existing branch is moved by an operation only in its UpdateRef step, so a
\* step that fails at tree building, parent lookup or commit creation leaves
\* every ref as it was.
C17_StepOrder ==
    /\ []C17_AttemptShape
    /\ [][\A p \in Procs :
            LET L == arg.proc[p] IN
            Steps(p) =>
                /\ L.pc \in {"fetch", "createTree", "getCommit", "createCommit",
                             "getRef", "getBaseRef"} => refs' = refs
                /\ L.pc = "createRef" =>
                      \A b \in DOMAIN refs : b \in DOMAIN refs' /\ refs'[b] = refs[b]
                /\ arg'.proc[p].pc = "done" =>
                      /\ L.pc = "updateRef"
                      /\ refs'[L.r.CommitBranch] = L.commit]_vars

\* an attempt is done at the first try, its commit at the head of its branch;
\* (another run) an attempt failed at Git.CreateTree after it created the branch
C17_Witness ==
    \E p \in Procs :
        LET L == arg.proc[p] IN
        \/ /\ L.pc = "done" /\ L.tries = 0
           /\ L.trace = CallOrder
           /\ refs[L.r.CommitBranch] = L.commit
           /\ Len(L.commit) = 2
        \/ /\ L.pc = "failed" /\ rev = RevNew
           /\ L.trace = <<"GetRef", "GetContents", "CreateTree">>
           /\ L.created

\* C18: the steps of getRef create the commit branch only when it has no ref,
\* at exactly the SHA read from the base branch's ref, and change no other ref;
\* a commit branch that exists is resolved to its ref as it is, with no ref
\* created or reset; when the base branch's ref cannot be read getRef fails and
\* the refs are as before.
C18_GetRef ==
    [][\A p \in Procs :
        LET L  == arg.proc[p]
            L2 == arg'.proc[p]
            b  == L.r.CommitBranch
        IN  (Steps(p) /\ L.pc \in {"getRef", "getBaseRef", "createRef"}) =>
              /\ \A c \in DOMAIN refs : c \in DOMAIN refs' /\ refs'[c] = refs[c]
              /\ DOMAIN refs' \subseteq DOMAIN refs \cup {b}
              /\ b \in DOMAIN refs' \ DOMAIN refs =>
                    /\ L.pc = "createRef"
                    /\ refs'[b] = L.base
                    /\ L2.pc = "fetch" /\ L2.sha = L.base
              /\ (L.pc = "getRef" /\ L2.pc = "fetch") =>
                    b \in DOMAIN refs /\ L2.sha = refs[b] /\ refs' = refs
              /\ (L.pc = "getBaseRef" /\ L2.pc = "createRef") =>
                    L2.base = refs[L.r.BaseBranch] /\ refs' = refs
              /\ (L.pc = "getBaseRef" /\ L2.pc /= "createRef") =>
                    L2.pc \in {"getRef", "failed"} /\ refs' = refs
              /\ (L.pc = "createRef" /\ b \in DOMAIN refs) =>
                    L2.pc \in {"getRef", "failed"} /\ refs' = refs]_vars

\* one operation created the commit branch and committed to it; the other, run
\* for the same event, resolved the branch that exists, with that commit on it
C18_Witness ==
    \E p \in Procs : \E q \in Procs :
        LET L == arg.proc[p]
            M == arg.proc[q]
        IN  /\ p /= q
            /\ L.r.CommitBranch = M.r.CommitBranch
            /\ L.r.CommitBranch /= L.r.BaseBranch
            /\ L.created /\ L.pc = "done"
            /\ ~M.created /\ M.pc = "fetch" /\ M.sha = L.commit

\* operation p has fetched the contents, every fetch having succeeded
Fetched(p) ==
    /\ arg.proc[p].pc \in {"createTree", "getCommit", "createCommit", "updateRef", "done"}
    /\ arg.proc[p].failedFetch = 0

\* the base branch of r is where it was at the start
BaseUnchanged(r) == r.BaseBranch \in DOMAIN refs /\ refs[r.BaseBranch] = <<RootCommit>>

ChangedPaths(r) == {r.Changes[i].filePath : i \in DOMAIN r.Changes}

\* C20: an attempt that is done has, for every path with registered changes, an
\* entry whose content is the content fetched from the base branch with all the
\* path's changes applied in order; its entry set is not empty.
C20_NoSilentOmission ==
    \A p \in Procs :
        LET L == arg.proc[p] IN
        L.pc = "done" =>
            /\ DOMAIN L.entries /= {}
            /\ \A path \in ChangedPaths(L.r) :
                  /\ path \in DOMAIN L.fetched
                  /\ path \in DOMAIN L.entries
                  /\ L.entries[path] =
                        ApplyInOrder(RulesOf(L.r, path, 1), L.fetched[path], 1)

====
